---- MODULE Spec2Model ----
(***************************************************************************)
(* Control logic of two model-definition modules:                          *)
(*   codes/models/gpt_voice/unified_voice_bilevel.py      (UnifiedGptVoice) *)
(*   codes/models/audio/music/transformer_diffusion8_mup.py                 *)
(*        (TransformerDiffusion, TransformerDiffusionWithQuantizer,         *)
(*         TransformerDiffusionWithARPrior)                                 *)
(* Tensor arithmetic (attention, convolution, losses) is carried out by    *)
(* the tensor library and is represented only by the kind of value a call  *)
(* returns; index manipulation, input validation, attribute construction   *)
(* and the step/temperature bookkeeping are modelled as written.           *)
(***************************************************************************)
EXTENDS Integers, Sequences, FiniteSets, TLC

\* ---------------------------------------------------------------- bounds
MaxMelLen == 3      \* longest mel token row passed by a caller
MaxTextLen == 2     \* longest text row passed by a caller
MaxWav == 2         \* largest wav length passed by a caller
MaxCondLen == 3     \* most time columns of a conditioning spectrogram
MaxStep == 4        \* largest training step passed to update_for_step
MaxFreeze == 2      \* largest freeze_quantizer_until a model is built with
MaxLoss == 2        \* largest diversity loss the quantizer reports

\* Batch size of the driver at the bottom of unified_voice_bilevel.py.
BatchSize == 2

VARIABLES
    \* ---- UnifiedGptVoice
    self,           \* attributes assigned by UnifiedGptVoice.__init__
    ctor,           \* outcome of evaluating UnifiedGptVoice(...)
    op,             \* method of the most recent call ("none" before it)
    text_len,       \* text_inputs.shape[1] of that call
    mel_arg,        \* the caller's mel tensor as it was when the call began
    mel_inputs,     \* the caller's mel tensor now (set_mel_padding is in place)
    wav_lengths,    \* wav_lengths of that call
    cond_len,       \* speech_conditioning_input.shape[-1] of that call
    cond_cols,      \* source column of every column of the permuted conditioning
    return_attentions, \* return_attentions of that call
    outcome,        \* "returned" or the exception the call raised (with the
                    \* tensor state it left behind)
    ret,            \* kind of value returned
    \* ---- transformer_diffusion8_mup
    model,          \* the constructed model: class, ar_prior, built submodules
    internal_step,  \* TransformerDiffusionWithQuantizer.internal_step
    freeze_quantizer_until,
    decay,          \* quantizer.gumbel_temperature_decay as <<num, den>>
    temperature,    \* quantizer.quantizer.temperature as <<num, den>>
    last_step,      \* history: <<step>> of the latest update_for_step, <<>> if none
    dop,            \* method of the most recent call on the diffusion model
    dargs,          \* its arguments
    doutcome,       \* "returned" or the exception raised
    dtrace,         \* what the call evaluated, in order
    quant_grad_enabled, \* gradient mode the quantizer ran under in that call
    diversity_loss  \* diversity loss that call held at its return statement

voiceVars == <<self, ctor, op, text_len, mel_arg, mel_inputs, wav_lengths,
               cond_len, cond_cols, return_attentions, outcome, ret>>
diffVars == <<model, internal_step, freeze_quantizer_until, decay, temperature,
              last_step, dop, dargs, doutcome, dtrace, quant_grad_enabled,
              diversity_loss>>
vars == <<voiceVars, diffVars>>

\* ------------------------------------------------------------ helpers
\* Variant: indices drawn independently (torch.randint), so a column can repeat.
Perms_with_replacement(n) == [1..n -> 1..n]

\* torch.randperm(n): any permutation of the n column indices
Perms(n) == {p \in [1..n -> 1..n] : \A i, j \in 1..n : p[i] = p[j] => i = j}

\* ============================================================================
\* UnifiedGptVoice (unified_voice_bilevel.py)
\* ============================================================================

\* A mel tensor of shape (b, m): b rows of m tokens.
Tensors(b, m, tokens) == [1..b -> [1..m -> tokens]]

\* Attribute sets the constructor arguments of UnifiedGptVoice.__init__ give the
\* instance.  The three length limits are below the caller's longest inputs,
\* so every assertion of forward can fail on its own.
VoiceConfigs ==
    [max_mel_tokens : {MaxMelLen - 1},
     max_symbols_per_phrase : {MaxTextLen - 1},
     max_total_tokens : {MaxMelLen + MaxTextLen - 3},
     mel_length_compression : {1, 2},
     max_conditioning_length : {2},
     bottom_layers : {2, 8},
     stop_mel_token : {9}]

\* Token values a caller's mel tensor holds: the <zero> code and the stop code.
MelTokens(slf) == {0, slf.stop_mel_token}

\* nn.Module.__setattr__: a submodule can be assigned to an instance only
\* after nn.Module.__init__ has run on it; before that the assignment raises
\* AttributeError ("cannot assign module before Module.__init__() call").
\* A constructor body is the sequence of its statements.
ModuleInit(body) ==
    IF \E i \in DOMAIN body :
          /\ body[i] = "assign_module"
          /\ \A j \in 1..(i - 1) : body[j] # "super_init"
    THEN "AttributeError"
    ELSE "completed"

\* ConditioningEncoder.__init__
ConditioningEncoder_init ==
    ModuleInit(<<"super_init", "assign_module", "assign_module",
                 "assign_plain", "assign_plain">>)

\* TopEncoder.__init__: self.init, self.reduction_layers, self.actual_layers
\* are assigned; super().__init__() is not called.
TopEncoder_init ==
    ModuleInit(<<"assign_module", "assign_module", "assign_module">>)

\* UnifiedGptVoice.__init__: super().__init__() first, then the submodules in
\* order; the first constructor that raises ends it.
UnifiedGptVoice_init ==
    IF ConditioningEncoder_init # "completed" THEN ConditioningEncoder_init
    ELSE IF TopEncoder_init # "completed" THEN TopEncoder_init
    ELSE ModuleInit(<<"super_init", "assign_plain", "assign_module">>)

\* Variant: the padding starts at mel_length, without the extra token.
set_mel_padding_row_no_extra(slf, row, wav_length) ==
    LET mel_length == wav_length \div slf.mel_length_compression
        actual_end == mel_length
    IN  IF actual_end < Len(row)
        THEN [p \in 1..Len(row) |->
                 IF p - 1 >= actual_end THEN slf.stop_mel_token ELSE row[p]]
        ELSE row

\* set_mel_padding on one row: wav_length // mel_length_compression, plus one,
\* is the first position overwritten, when it lies inside the row.
set_mel_padding_row(slf, row, wav_length) ==
    LET mel_length == wav_length \div slf.mel_length_compression
        actual_end == mel_length + 1
    IN  IF actual_end < Len(row)
        THEN [p \in 1..Len(row) |->
                 IF p - 1 >= actual_end THEN slf.stop_mel_token ELSE row[p]]
        ELSE row

\* set_mel_padding: the loop over the batch.
set_mel_padding(slf, mel_input_tokens, wavs) ==
    [b \in DOMAIN mel_input_tokens |->
        set_mel_padding_row(slf, mel_input_tokens[b], wavs[b])]

\* randomly_permute_conditioning_input, given the permutation randperm drew:
\* gather the columns in that order, then keep the first
\* max_conditioning_length of them.
randomly_permute_conditioning_input(slf, perm) ==
    LET cond_input == perm
    IN  IF Len(cond_input) > slf.max_conditioning_length
        THEN SubSeq(cond_input, 1, slf.max_conditioning_length)
        ELSE cond_input

\* The three assertions that open forward.
forward_asserts(slf, m, t) ==
    /\ slf.max_mel_tokens >= m
    /\ slf.max_symbols_per_phrase >= t
    /\ slf.max_total_tokens >= m + t

\* What a call leaves behind: how it ended, the caller's mel tensor, the
\* permuted conditioning and the kind of value returned.
Raised(exc, mel, cond) ==
    [outcome |-> exc, mel |-> mel, cond |-> cond, ret |-> "none"]

Returned(mel, cond, value) ==
    [outcome |-> "returned", mel |-> mel, cond |-> cond, ret |-> value]

\* get_logits(..., get_attns=True) returns gpt_out.attentions, one attention
\* map per layer of bottom_gpt; forward unpacks that tuple into two names,
\* which raises ValueError unless there are exactly two layers.
unpack_attentions(slf) ==
    IF slf.bottom_layers = 2 THEN "returned" ELSE "ValueError"

\* The value forward returns once get_logits has returned: with
\* return_attentions the name mel_logits, bound to the second attention map
\* when text_first and to the first otherwise; else the losses and logits.
forward_value(text_first, ra) ==
    IF ra THEN (IF text_first THEN "attentions[1]" ELSE "attentions[0]")
    ELSE "loss_text, loss_mel, mel_logits"

\* Variant: set_mel_padding runs before the assertions.
forward_pad_first(slf, mel, t, wav, perm, text_first, ra) ==
    LET padded == set_mel_padding(slf, mel, wav)
        cond == randomly_permute_conditioning_input(slf, perm)
    IN  IF ~forward_asserts(slf, Len(mel[1]), t)
        THEN Raised("AssertionError", padded, <<>>)
        ELSE IF ra /\ unpack_attentions(slf) # "returned"
        THEN Raised(unpack_attentions(slf), padded, cond)
        ELSE Returned(padded, cond, forward_value(text_first, ra))

\* forward: assertions, then set_mel_padding (in place), the permutation, the
\* embeddings, get_logits with the unpacking of its result, and the return.
forward(slf, mel, t, wav, perm, text_first, ra) ==
    LET padded == set_mel_padding(slf, mel, wav)
        cond == randomly_permute_conditioning_input(slf, perm)
    IN  IF ~forward_asserts(slf, Len(mel[1]), t)
        THEN Raised("AssertionError", mel, <<>>)
        ELSE IF ra /\ unpack_attentions(slf) # "returned"
        THEN Raised(unpack_attentions(slf), padded, cond)
        ELSE Returned(padded, cond, forward_value(text_first, ra))

\* text_forward
text_forward(slf, t, perm) ==
    IF ~(slf.max_symbols_per_phrase >= t)
    THEN Raised("AssertionError", <<>>, <<>>)
    ELSE Returned(<<>>, randomly_permute_conditioning_input(slf, perm),
                  "loss_text")

\* speech_forward
speech_forward(slf, mel, wav, perm) ==
    IF ~(slf.max_mel_tokens >= Len(mel[1]))
    THEN Raised("AssertionError", mel, <<>>)
    ELSE Returned(set_mel_padding(slf, mel, wav),
                  randomly_permute_conditioning_input(slf, perm),
                  "loss_mel")

NoTensor == <<>>

InitVoice ==
    /\ self \in VoiceConfigs
    /\ ctor = "not_called"
    /\ op = "none"
    /\ text_len = 0
    /\ mel_arg = NoTensor
    /\ mel_inputs = NoTensor
    /\ wav_lengths = <<>>
    /\ cond_len = 0
    /\ cond_cols = <<>>
    /\ return_attentions = FALSE
    /\ outcome = "none"
    /\ ret = "none"

\* gpt = UnifiedGptVoice(...)
Construct ==
    /\ ctor = "not_called"
    /\ ctor' = UnifiedGptVoice_init
    /\ UNCHANGED <<self, op, text_len, mel_arg, mel_inputs, wav_lengths, diffVars,
                   cond_len, cond_cols, return_attentions, outcome, ret>>

\* The methods keep nothing on the instance between calls, so a behaviour
\* holds one call; the receiver carries the attributes of `self`.
CallSetMelPadding ==
    /\ op = "none"
    /\ \E m \in 0..MaxMelLen :
       \E mel \in Tensors(BatchSize, m, MelTokens(self)) :
       \E wav \in [1..BatchSize -> 0..MaxWav] :
          /\ op' = "set_mel_padding"
          /\ mel_arg' = mel
          /\ wav_lengths' = wav
          /\ mel_inputs' = set_mel_padding(self, mel, wav)
          /\ outcome' = "returned"
          /\ ret' = "mel_input_tokens"
    /\ UNCHANGED <<self, ctor, text_len, cond_len, cond_cols, return_attentions,
                   diffVars>>

CallRandomlyPermute ==
    /\ op = "none"
    /\ \E s \in 0..MaxCondLen :
       \E perm \in Perms(s) :
          /\ op' = "randomly_permute_conditioning_input"
          /\ cond_len' = s
          /\ cond_cols' = randomly_permute_conditioning_input(self, perm)
          /\ outcome' = "returned"
          /\ ret' = "cond_input"
    /\ UNCHANGED <<self, ctor, text_len, mel_arg, mel_inputs, wav_lengths,
                   return_attentions, diffVars>>

CallForward ==
    /\ op = "none"
    /\ \E m \in 0..MaxMelLen, t \in 0..MaxTextLen, s \in 1..MaxCondLen :
       \E mel \in Tensors(BatchSize, m, MelTokens(self)) :
       \E wav \in [1..BatchSize -> 0..MaxWav] :
       \E perm \in Perms(s) :
       \E text_first \in BOOLEAN, ra \in BOOLEAN :
       LET r == forward(self, mel, t, wav, perm, text_first, ra) IN
          /\ return_attentions' = ra
          /\ op' = "forward"
          /\ text_len' = t
          /\ mel_arg' = mel
          /\ wav_lengths' = wav
          /\ cond_len' = s
          /\ mel_inputs' = r.mel
          /\ cond_cols' = r.cond
          /\ outcome' = r.outcome
          /\ ret' = r.ret
    /\ UNCHANGED <<self, ctor, diffVars>>

CallTextForward ==
    /\ op = "none"
    /\ \E t \in 0..MaxTextLen, s \in 1..MaxCondLen :
       \E perm \in Perms(s) :
       LET r == text_forward(self, t, perm) IN
          /\ op' = "text_forward"
          /\ text_len' = t
          /\ cond_len' = s
          /\ cond_cols' = r.cond
          /\ outcome' = r.outcome
          /\ ret' = r.ret
    /\ UNCHANGED <<self, ctor, mel_arg, mel_inputs, wav_lengths, return_attentions,
                   diffVars>>

CallSpeechForward ==
    /\ op = "none"
    /\ \E m \in 0..MaxMelLen, s \in 1..MaxCondLen :
       \E mel \in Tensors(BatchSize, m, MelTokens(self)) :
       \E wav \in [1..BatchSize -> 0..MaxWav] :
       \E perm \in Perms(s) :
       LET r == speech_forward(self, mel, wav, perm) IN
          /\ op' = "speech_forward"
          /\ mel_arg' = mel
          /\ wav_lengths' = wav
          /\ cond_len' = s
          /\ mel_inputs' = r.mel
          /\ cond_cols' = r.cond
          /\ outcome' = r.outcome
          /\ ret' = r.ret
    /\ UNCHANGED <<self, ctor, text_len, return_attentions, diffVars>>

NextVoice ==
    \/ Construct
    \/ CallSetMelPadding
    \/ CallRandomlyPermute
    \/ CallForward
    \/ CallTextForward
    \/ CallSpeechForward

\* ============================================================================
\* transformer_diffusion8_mup.py
\* ============================================================================

\* Rationals as <<numerator, denominator>>, denominator positive.
RECURSIVE Pow(_, _)
Pow(b, e) == IF e = 0 THEN 1 ELSE b * Pow(b, e - 1)

RatGeq(a, b) == a[1] * b[2] >= b[1] * a[2]

\* Python's max(a, b): b only when it is strictly greater
RatMax(a, b) == IF RatGeq(a, b) THEN a ELSE b

\* MusicQuantizer2(..., max_gumbel_temperature=4, min_gumbel_temperature=.5)
max_gumbel_temperature == <<4, 1>>
min_gumbel_temperature == <<1, 2>>

\* quantizer.gumbel_temperature_decay values a quantizer can carry
Decays == {<<1, 2>>, <<3, 4>>}

\* Attributes of a MusicQuantizer2 instance that the wrapper touches.
MusicQuantizer2_attrs == {"encoder", "quantizer", "up"}

\* TransformerDiffusion.__init__: the submodules built for a given ar_prior.
TransformerDiffusion_init(ar_prior) ==
    {"inp_block", "time_embed"}
    \cup (IF ar_prior THEN {"ar_input", "ar_prior_intg"}
          ELSE {"input_converter", "code_converter"})
    \cup {"unconditioned_embedding", "rotary_embeddings", "intg", "layers", "out"}

\* Attribute reads of the three get_grad_norm_parameter_groups methods:
\* `diff` on the TransformerDiffusion, `quant` on the quantizer.
GradNormReads(class) ==
    CASE class = "TransformerDiffusion" ->
           [diff |-> {"layers", "inp_block", "input_converter", "code_converter",
                      "time_embed"},
            quant |-> {}]
      [] class = "TransformerDiffusionWithQuantizer" ->
           [diff |-> {"layers", "rotary_embeddings", "out", "inp_block",
                      "input_converter", "code_converter", "time_embed"},
            quant |-> {"encoder", "quantizer"}]
      [] class = "TransformerDiffusionWithARPrior" ->
           [diff |-> {"layers", "rotary_embeddings", "out", "inp_block",
                      "ar_prior_intg", "time_embed"},
            quant |-> {}]

\* get_grad_norm_parameter_groups: building the dict reads every attribute;
\* nn.Module.__getattr__ raises AttributeError for one that was never built.
get_grad_norm_parameter_groups(mdl) ==
    LET reads == GradNormReads(mdl.class)
    IN  IF reads.diff \subseteq mdl.diff /\ reads.quant \subseteq mdl.quant
        THEN "returned"
        ELSE "AttributeError"

NoModel == [class |-> "none", ar_prior |-> FALSE, diff |-> {}, quant |-> {}]

\* TransformerDiffusion.timestep_independent: the converter chosen by
\* ar_prior is applied to the prior; a prior of None is rejected by the layer.
timestep_independent(mdl, codes_given) ==
    IF codes_given THEN "returned" ELSE "TypeError"

\* Variant: the assertion joins its two tests with `or`.
TransformerDiffusion_forward_or(mdl, codes, conditioning_input, precomputed, conditioning_free) ==
    LET asserted == precomputed
        assert_ok == ~codes \/ ~conditioning_input
        t0 == IF asserted THEN <<"assert">> ELSE <<>>
    IN  IF asserted /\ ~assert_ok
        THEN [outcome |-> "AssertionError", trace |-> t0]
        ELSE IF conditioning_free
        THEN [outcome |-> "returned",
              trace |-> t0 \o <<"unconditioned_embedding", "layers", "out">>]
        ELSE IF precomputed
        THEN [outcome |-> "returned",
              trace |-> t0 \o <<"precomputed", "layers", "out">>]
        ELSE IF timestep_independent(mdl, codes) = "returned"
        THEN [outcome |-> "returned",
              trace |-> t0 \o <<"timestep_independent", "layers", "out">>]
        ELSE [outcome |-> timestep_independent(mdl, codes),
              trace |-> t0 \o <<"timestep_independent">>]

\* TransformerDiffusion.forward.  Arguments are given (TRUE) or None (FALSE).
\* The result is how the call ended and what it evaluated, in order.
TransformerDiffusion_forward(mdl, codes, conditioning_input, precomputed, conditioning_free) ==
    LET asserted == precomputed
        assert_ok == ~codes /\ ~conditioning_input
        t0 == IF asserted THEN <<"assert">> ELSE <<>>
    IN  IF asserted /\ ~assert_ok
        THEN [outcome |-> "AssertionError", trace |-> t0]
        ELSE IF conditioning_free
        THEN [outcome |-> "returned",
              trace |-> t0 \o <<"unconditioned_embedding", "layers", "out">>]
        ELSE IF precomputed
        THEN [outcome |-> "returned",
              trace |-> t0 \o <<"precomputed", "layers", "out">>]
        ELSE IF timestep_independent(mdl, codes) = "returned"
        THEN [outcome |-> "returned",
              trace |-> t0 \o <<"timestep_independent", "layers", "out">>]
        ELSE [outcome |-> timestep_independent(mdl, codes),
              trace |-> t0 \o <<"timestep_independent">>]

\* Variant: the decay exponent is the step itself, not the steps past the freeze.
StepTemperature_from_zero(step, freeze, dec) ==
    RatMax(<<max_gumbel_temperature[1] * Pow(dec[1], step),
             max_gumbel_temperature[2] * Pow(dec[2], step)>>,
           min_gumbel_temperature)

\* TransformerDiffusionWithQuantizer.update_for_step: the temperature
\* max(max_gumbel_temperature * decay ** qstep, min_gumbel_temperature)
\* with qstep = max(0, step - freeze_quantizer_until).
StepTemperature(step, freeze, dec) ==
    LET d == step - freeze
        qstep == IF 0 >= d THEN 0 ELSE d
    IN  RatMax(<<max_gumbel_temperature[1] * Pow(dec[1], qstep),
                 max_gumbel_temperature[2] * Pow(dec[2], qstep)>>,
               min_gumbel_temperature)

\* Variant: the quantizer thaws one step early.
QuantGradEnabled_geq(step, freeze) == step >= freeze

\* TransformerDiffusionWithQuantizer.forward: the gradient mode of the
\* quantizer call.
QuantGradEnabled(step, freeze) == step > freeze

\* TransformerDiffusionWithQuantizer.forward, given the diversity loss the
\* quantizer reported: the loss held at the return statement.
QuantizerForwardLoss(enabled, raw_loss) ==
    IF ~enabled THEN raw_loss * 0 ELSE raw_loss

InitDiffusion ==
    /\ model = NoModel
    /\ internal_step = 0
    /\ freeze_quantizer_until = 0
    /\ decay = <<1, 1>>
    /\ temperature = <<0, 1>>
    /\ last_step = <<>>
    /\ dop = "none"
    /\ dargs = <<>>
    /\ doutcome = "none"
    /\ dtrace = <<>>
    /\ quant_grad_enabled = FALSE
    /\ diversity_loss = 0

\* model = TransformerDiffusion(ar_prior=...)
ConstructTransformerDiffusion ==
    /\ model.class = "none"
    /\ \E ar_prior \in BOOLEAN :
          model' = [class |-> "TransformerDiffusion", ar_prior |-> ar_prior,
                    diff |-> TransformerDiffusion_init(ar_prior), quant |-> {}]
    /\ dop' = "__init__"
    /\ doutcome' = "returned"
    /\ UNCHANGED <<internal_step, freeze_quantizer_until, decay, temperature,
                   last_step, dargs, dtrace, quant_grad_enabled, diversity_loss,
                   voiceVars>>

\* model = TransformerDiffusionWithQuantizer(freeze_quantizer_until=..., **kwargs)
ConstructWithQuantizer ==
    /\ model.class = "none"
    /\ \E ar_prior \in BOOLEAN, freeze \in -1..MaxFreeze, dec \in Decays :
          /\ internal_step' = 0
          /\ freeze_quantizer_until' = freeze
          /\ model' = [class |-> "TransformerDiffusionWithQuantizer",
                       ar_prior |-> ar_prior,
                       diff |-> TransformerDiffusion_init(ar_prior),
                       quant |-> MusicQuantizer2_attrs \ {"up"}]
          /\ decay' = dec
          /\ temperature' = min_gumbel_temperature
    /\ dop' = "__init__"
    /\ doutcome' = "returned"
    /\ UNCHANGED <<last_step, dargs, dtrace, quant_grad_enabled, diversity_loss,
                   voiceVars>>

\* model = TransformerDiffusionWithARPrior(**kwargs)
ConstructWithARPrior ==
    /\ model.class = "none"
    /\ internal_step' = 0
    /\ model' = [class |-> "TransformerDiffusionWithARPrior", ar_prior |-> TRUE,
                 diff |-> TransformerDiffusion_init(TRUE), quant |-> {}]
    /\ dop' = "__init__"
    /\ doutcome' = "returned"
    /\ UNCHANGED <<freeze_quantizer_until, decay, temperature, last_step, dargs,
                   dtrace, quant_grad_enabled, diversity_loss, voiceVars>>

\* model.get_grad_norm_parameter_groups()
CallGetGradNormParameterGroups ==
    /\ model.class # "none"
    /\ dop' = "get_grad_norm_parameter_groups"
    /\ dargs' = <<>>
    /\ doutcome' = get_grad_norm_parameter_groups(model)
    /\ dtrace' = <<>>
    /\ UNCHANGED <<model, internal_step, freeze_quantizer_until, decay,
                   temperature, last_step, quant_grad_enabled, diversity_loss,
                   voiceVars>>

\* model.forward(x, timesteps, codes, conditioning_input,
\*               precomputed_code_embeddings, conditioning_free)
CallDiffusionForward ==
    /\ model.class = "TransformerDiffusion"
    /\ \E codes \in BOOLEAN, conditioning_input \in BOOLEAN,
          precomputed \in BOOLEAN, conditioning_free \in BOOLEAN :
       LET r == TransformerDiffusion_forward(model, codes, conditioning_input,
                                             precomputed, conditioning_free) IN
          /\ dop' = "forward"
          /\ dargs' = [codes |-> codes, conditioning_input |-> conditioning_input,
                       precomputed_code_embeddings |-> precomputed,
                       conditioning_free |-> conditioning_free]
          /\ doutcome' = r.outcome
          /\ dtrace' = r.trace
    /\ UNCHANGED <<model, internal_step, freeze_quantizer_until, decay,
                   temperature, last_step, quant_grad_enabled, diversity_loss,
                   voiceVars>>

\* model.update_for_step(step)
CallUpdateForStep ==
    /\ model.class = "TransformerDiffusionWithQuantizer"
    /\ \E step \in 0..MaxStep :
          /\ internal_step' = step
          /\ temperature' = StepTemperature(step, freeze_quantizer_until, decay)
          /\ last_step' = <<step>>
    /\ dop' = "update_for_step"
    /\ dargs' = <<>>
    /\ doutcome' = "returned"
    /\ dtrace' = <<>>
    /\ UNCHANGED <<model, freeze_quantizer_until, decay, quant_grad_enabled,
                   diversity_loss, voiceVars>>

\* model.forward(x, timesteps, truth_mel, conditioning_input,
\*               disable_diversity, conditioning_free) on the quantizer wrapper;
\* raw_loss is the diversity loss the quantizer computes for truth_mel.
CallQuantizerForward ==
    /\ model.class = "TransformerDiffusionWithQuantizer"
    /\ \E raw_loss \in 0..MaxLoss, conditioning_input \in BOOLEAN,
          disable_diversity \in BOOLEAN, conditioning_free \in BOOLEAN :
       LET enabled == QuantGradEnabled(internal_step, freeze_quantizer_until)
           loss == QuantizerForwardLoss(enabled, raw_loss)
           r == TransformerDiffusion_forward(model, TRUE, conditioning_input,
                                             FALSE, conditioning_free) IN
          /\ dop' = "forward"
          /\ dargs' = [raw_loss |-> raw_loss,
                       conditioning_input |-> conditioning_input,
                       disable_diversity |-> disable_diversity,
                       conditioning_free |-> conditioning_free]
          /\ quant_grad_enabled' = enabled
          /\ diversity_loss' = loss
          /\ doutcome' = r.outcome
          /\ dtrace' = <<"quantizer">> \o r.trace
    /\ UNCHANGED <<model, internal_step, freeze_quantizer_until, decay,
                   temperature, last_step, voiceVars>>

\* model.forward(x, timesteps, truth_mel, ...) on the AR-prior wrapper: the
\* prior is computed without gradients and passed as codes.
CallARPriorForward ==
    /\ model.class = "TransformerDiffusionWithARPrior"
    /\ \E conditioning_input \in BOOLEAN, conditioning_free \in BOOLEAN :
       LET r == TransformerDiffusion_forward(model, TRUE, FALSE, FALSE,
                                             conditioning_free) IN
          /\ dop' = "forward"
          /\ dargs' = [conditioning_input |-> conditioning_input,
                       conditioning_free |-> conditioning_free]
          /\ doutcome' = r.outcome
          /\ dtrace' = <<"ar">> \o r.trace
    /\ UNCHANGED <<model, internal_step, freeze_quantizer_until, decay,
                   temperature, last_step, quant_grad_enabled, diversity_loss,
                   voiceVars>>

NextDiffusion ==
    \/ ConstructTransformerDiffusion
    \/ ConstructWithQuantizer
    \/ ConstructWithARPrior
    \/ CallGetGradNormParameterGroups
    \/ CallDiffusionForward
    \/ CallUpdateForStep
    \/ CallQuantizerForward
    \/ CallARPriorForward

\* ============================================================================
\* Specifications
\* ============================================================================

\* Spec: the voice model; the diffusion state stays as constructed.
Init == InitVoice /\ InitDiffusion

Next == NextVoice

Spec == Init /\ [][Next]_vars

\* SpecDiffusion: the diffusion models; one voice configuration, never called.
InitD ==
    /\ InitDiffusion
    /\ InitVoice
    /\ self = CHOOSE c \in VoiceConfigs : TRUE

SpecDiffusion == InitD /\ [][NextDiffusion]_vars

\* ============================================================================
\* Properties
\* ============================================================================
Min(a, b) == IF a < b THEN a ELSE b

Range(q) == {q[i] : i \in DOMAIN q}

RatEq(a, b) == a[1] * b[2] = b[1] * a[2]

\* end of row b of the latest call: (wav_lengths[b] // mel_length_compression) + 1
RowEnd(b) == (wav_lengths[b] \div self.mel_length_compression) + 1

\* C1: after set_mel_padding, in every row b every position p >= end holds
\* stop_mel_token and every position p < end keeps its input value, where
\* end = (wav_lengths[b] // mel_length_compression) + 1; a row whose end is
\* at or past the row length is unchanged.
C1_SetMelPadding ==
    op = "set_mel_padding" =>
        \A b \in 1..BatchSize :
            /\ Len(mel_inputs[b]) = Len(mel_arg[b])
            /\ \A p \in 0..(Len(mel_arg[b]) - 1) :
                  /\ p >= RowEnd(b) => mel_inputs[b][p + 1] = self.stop_mel_token
                  /\ p < RowEnd(b) => mel_inputs[b][p + 1] = mel_arg[b][p + 1]
            /\ RowEnd(b) >= Len(mel_arg[b]) => mel_inputs[b] = mel_arg[b]

\* C1 witness: one row had a <zero> code overwritten past its end and kept a
\* stop code before it, while another row, ending past the tensor, was left alone.
C1_Witness ==
    /\ op = "set_mel_padding"
    /\ \E b, c \in 1..BatchSize :
          /\ RowEnd(b) < Len(mel_arg[b])
          /\ mel_arg[b][Len(mel_arg[b])] = 0
          /\ mel_inputs[b][Len(mel_arg[b])] = self.stop_mel_token
          /\ mel_arg[b][RowEnd(b)] = self.stop_mel_token
          /\ RowEnd(c) >= Len(mel_arg[c])
          /\ \E p \in DOMAIN mel_arg[c] : mel_arg[c][p] = 0

\* C2: forward raises AssertionError whenever the mel length exceeds
\* max_mel_tokens, the text length exceeds max_symbols_per_phrase or their sum
\* exceeds max_total_tokens; text_forward and speech_forward do so on their one
\* limit; and whenever such a call raised, the caller's mel tensor is as it was.
C2_InputValidation ==
    /\ op = "forward" =>
          ((\/ Len(mel_arg[1]) > self.max_mel_tokens
            \/ text_len > self.max_symbols_per_phrase
            \/ Len(mel_arg[1]) + text_len > self.max_total_tokens)
           => outcome = "AssertionError")
    /\ op = "text_forward" =>
          (text_len > self.max_symbols_per_phrase => outcome = "AssertionError")
    /\ op = "speech_forward" =>
          (Len(mel_arg[1]) > self.max_mel_tokens => outcome = "AssertionError")
    /\ (op \in {"forward", "speech_forward"} /\ outcome = "AssertionError")
          => mel_inputs = mel_arg

\* C2 witness: forward raised on the sum alone, with a tensor that
\* set_mel_padding would have changed.
C2_Witness ==
    /\ op = "forward"
    /\ outcome = "AssertionError"
    /\ Len(mel_arg[1]) <= self.max_mel_tokens
    /\ text_len <= self.max_symbols_per_phrase
    /\ set_mel_padding(self, mel_arg, wav_lengths) # mel_arg
    /\ mel_inputs = mel_arg

\* C3: TransformerDiffusion.forward given precomputed_code_embeddings together
\* with codes or conditioning_input raises AssertionError having evaluated
\* nothing but the assertion, whatever conditioning_free is; without
\* precomputed_code_embeddings the assertion is not evaluated.
C3_RejectsAmbiguousConditioning ==
    (dop = "forward" /\ model.class = "TransformerDiffusion") =>
        /\ (dargs.precomputed_code_embeddings
              /\ (dargs.codes \/ dargs.conditioning_input))
           => (doutcome = "AssertionError" /\ dtrace = <<"assert">>)
        /\ ~dargs.precomputed_code_embeddings => "assert" \notin Range(dtrace)

\* C3 witness: a conditioning-free call with precomputed embeddings and a
\* conditioning input, but no codes, was rejected.
C3_Witness ==
    /\ dop = "forward"
    /\ model.class = "TransformerDiffusion"
    /\ dargs.precomputed_code_embeddings
    /\ dargs.conditioning_input
    /\ ~dargs.codes
    /\ dargs.conditioning_free
    /\ doutcome = "AssertionError"

\* C4: constructing UnifiedGptVoice completes without error, and a forward
\* call within the length limits returns (loss_text, loss_mel, mel_logits).
C4_ConstructionCompletes ==
    /\ ctor # "not_called" => ctor = "completed"
    /\ (op = "forward" /\ ~return_attentions
          /\ forward_asserts(self, Len(mel_arg[1]), text_len))
       => ret = "loss_text, loss_mel, mel_logits"

\* C5: get_grad_norm_parameter_groups returns on every constructed model.
C5_GradNormGroupsSucceeds ==
    dop = "get_grad_norm_parameter_groups" => doutcome = "returned"

\* C6: randomly_permute_conditioning_input returns min(input length,
\* max_conditioning_length) columns, each a column of the input, no input
\* column at two output positions.
C6_PermuteThenTruncate ==
    op = "randomly_permute_conditioning_input" =>
        /\ Len(cond_cols) = Min(cond_len, self.max_conditioning_length)
        /\ \A i \in DOMAIN cond_cols : cond_cols[i] \in 1..cond_len
        /\ \A i, j \in DOMAIN cond_cols : cond_cols[i] = cond_cols[j] => i = j

\* C6 witness: a truncating call whose kept columns are out of their input order.
C6_Witness ==
    /\ op = "randomly_permute_conditioning_input"
    /\ cond_len > self.max_conditioning_length
    /\ Len(cond_cols) = 2
    /\ cond_cols[1] > cond_cols[2]

\* C7: in a forward call of TransformerDiffusionWithQuantizer the quantizer
\* ran with gradients enabled iff internal_step > freeze_quantizer_until, a
\* call with gradients disabled holds a diversity loss of zero, and a call
\* before the first update_for_step with freeze_quantizer_until >= 0 is frozen.
C7_QuantizerFreeze ==
    (dop = "forward" /\ model.class = "TransformerDiffusionWithQuantizer") =>
        /\ quant_grad_enabled <=> internal_step > freeze_quantizer_until
        /\ ~quant_grad_enabled => diversity_loss = 0
        /\ quant_grad_enabled => diversity_loss = dargs.raw_loss
        /\ (last_step = <<>> /\ freeze_quantizer_until >= 0) => ~quant_grad_enabled

\* C7 witness: a forward call at internal_step = freeze_quantizer_until > 0,
\* after an update, ran frozen and zeroed a positive diversity loss.
C7_Witness ==
    /\ dop = "forward"
    /\ model.class = "TransformerDiffusionWithQuantizer"
    /\ last_step # <<>>
    /\ internal_step = freeze_quantizer_until
    /\ internal_step > 0
    /\ dargs.raw_loss > 0
    /\ ~quant_grad_enabled
    /\ diversity_loss = 0

\* C8: internal_step is the step of the latest update_for_step (0 if none)
\* and the temperature is max(4 * decay ** max(0, step - freeze), .5) for that
\* step (.5 if none), whatever forward calls were made.
C8_StepAndTemperature ==
    model.class = "TransformerDiffusionWithQuantizer" =>
        IF last_step = <<>>
        THEN internal_step = 0 /\ RatEq(temperature, <<1, 2>>)
        ELSE LET q == IF last_step[1] > freeze_quantizer_until
                      THEN last_step[1] - freeze_quantizer_until ELSE 0
                 n == 4 * Pow(decay[1], q)
                 d == Pow(decay[2], q)
             IN  /\ internal_step = last_step[1]
                 /\ IF 2 * n >= d THEN RatEq(temperature, <<n, d>>)
                    ELSE RatEq(temperature, <<1, 2>>)

\* C8 witness: a forward call after an update past the freeze, with the
\* temperature decayed to strictly between its minimum and maximum.
C8_Witness ==
    /\ model.class = "TransformerDiffusionWithQuantizer"
    /\ dop = "forward"
    /\ last_step # <<>>
    /\ last_step[1] > freeze_quantizer_until
    /\ freeze_quantizer_until > 0
    /\ ~RatEq(temperature, max_gumbel_temperature)
    /\ ~RatEq(temperature, min_gumbel_temperature)

====
